---- MODULE Spec2Model ----
(***************************************************************************)
(* A model of BasePythonDaemon (src/platform/common/process/               *)
(* baseDaemon.node.ts): the daemon's lifecycle (connection monitor and     *)
(* dispose), the capability gate, the request dispatcher with its race     *)
(* against the closed-state promise, and the batch and streaming calls     *)
(* with their fallback to the python execution service.                    *)
(*                                                                         *)
(* One TLA+ step is one turn of the JavaScript event loop: a public call,  *)
(* an event handler or a timer callback, together with the promise         *)
(* continuations (microtasks) that it makes runnable, which run before     *)
(* any other event is handled.                                             *)
(***************************************************************************)
EXTENDS Naturals, Sequences, FiniteSets, TLC

\* ------------------------------------------------------------------ bounds
\* Number of calls made on the daemon in one behaviour.
MaxCalls == 1
\* Number of connection events (close, dispose, error) the connection emits.
MaxEvents == 1
\* Number of dispose() invocations (the daemon may be held by several owners).
MaxDisposeCalls == 2

CallIds == 1..MaxCalls

\* Number of calls made on one daemon in the specifications about several
\* calls in a row or at the same time.
MaxSessionCalls == 2

SessionCallIds == 1..MaxSessionCalls
AllCallIds == CallIds \cup SessionCallIds

\* Number of getOrCreateNotebook calls made on the notebook provider for one
\* identity in one behaviour.
MaxNotebookCalls == 2

NotebookCallIds == 1..MaxNotebookCalls

\* ------------------------------------------------------------- plain data
\* JavaScript values handed to logConnectionStatus as `ex`.
Undefined == [kind |-> "undefined", text |-> ""]
Null == [kind |-> "null", text |-> ""]
Number(n) == [kind |-> "number", text |-> n]
Error(m) == [kind |-> "error", text |-> m]

\* JavaScript truthiness of such a value: undefined, null and 0 are falsy.
Truthy(ex) == \/ ex.kind = "error"
              \/ ex.kind = "number" /\ ex.text # "0"

\* util.format of a single value: a number prints as its digits, an Error
\* prints with its name in front of its message.
UtilFormat(ex) == IF ex.kind = "error" THEN "Error: " \o ex.text ELSE ex.text

\* The errors the connection may report, and the values a process may pass
\* to its 'exit' listeners (null when it was ended by a signal).
ConnectionErrors == {Error("socket hang up")}
ExitCodes == {Number("0"), Number("1"), Null}

\* Typed errors.
ConnectionClosedError(message) == [type |-> "ConnectionClosedError", message |-> message]
DaemonError(message) == [type |-> "DaemonError", message |-> message]
StdErrError(message) == [type |-> "StdErrError", message |-> message]
NoError == [type |-> "", message |-> ""]

\* os.EOL on the POSIX platforms.
EOL == "\n"

\* SpawnOptions: `keys` is Object.keys(options); the fields hold the values
\* the daemon reads (FALSE or "" when the key is absent).
Options(keys, cwd, throwOnStdErr, mergeStdOutErr) ==
    [keys |-> keys, cwd |-> cwd, throwOnStdErr |-> throwOnStdErr,
     mergeStdOutErr |-> mergeStdOutErr]

\* A response of the daemon: `fields` are the keys present in the object.
Response(fields, error, stdout, stderr) ==
    [fields |-> fields, error |-> error, stdout |-> stdout, stderr |-> stderr]
NoResponse == Response({}, "", "", "")

\* ------------------------------------------------------------ string help
RECURSIVE Join(_, _)
\* Array.prototype.join
Join(strs, sep) ==
    IF strs = << >> THEN ""
    ELSE IF Len(strs) = 1 THEN strs[1]
    ELSE strs[1] \o sep \o Join(Tail(strs), sep)

LowerChar(ch) ==
    CASE ch = "A" -> "a" [] ch = "B" -> "b" [] ch = "C" -> "c" [] ch = "D" -> "d"
      [] ch = "E" -> "e" [] ch = "F" -> "f" [] ch = "G" -> "g" [] ch = "H" -> "h"
      [] ch = "I" -> "i" [] ch = "J" -> "j" [] ch = "K" -> "k" [] ch = "L" -> "l"
      [] ch = "M" -> "m" [] ch = "N" -> "n" [] ch = "O" -> "o" [] ch = "P" -> "p"
      [] ch = "Q" -> "q" [] ch = "R" -> "r" [] ch = "S" -> "s" [] ch = "T" -> "t"
      [] ch = "U" -> "u" [] ch = "V" -> "v" [] ch = "W" -> "w" [] ch = "X" -> "x"
      [] ch = "Y" -> "y" [] ch = "Z" -> "z" [] OTHER -> ch

RECURSIVE ToLowerCase(_)
\* String.prototype.toLowerCase
ToLowerCase(s) ==
    IF s = "" THEN ""
    ELSE LowerChar(SubSeq(s, 1, 1)) \o ToLowerCase(SubSeq(s, 2, Len(s)))

\* String.prototype.endsWith
EndsWith(s, suffix) ==
    /\ Len(s) >= Len(suffix)
    /\ SubSeq(s, Len(s) - Len(suffix) + 1, Len(s)) = suffix

\* -------------------------------------------------------- capability gate
\* An allow-list that lacks the encoding key.
SupportedWithoutEncoding ==
    {"cwd", "env", "throwOnStdErr", "token", "mergeStdOutErr"}

daemonSupportedSpawnOptions ==
    {"cwd", "env", "throwOnStdErr", "token", "encoding", "mergeStdOutErr"}

areOptionsSupported(options) ==
    \A item \in options.keys : item \in daemonSupportedSpawnOptions

\* A gate that accepts a file of any kind.
canExecAnyFileUsingDaemon(args, options) == areOptionsSupported(options)

canExecFileUsingDaemon(args, options) ==
    /\ EndsWith(ToLowerCase(args[1]), ".py")
    /\ areOptionsSupported(options)

canExecModuleUsingDaemon(moduleName, args, options) ==
    areOptionsSupported(options)

\* ------------------------------------------------------------------ state
VARIABLES
    connectionClosedMessage,   \* BasePythonDaemon.connectionClosedMessage
    connectionClosedDeferred,  \* the shared closed-state promise
    disposed,                  \* BasePythonDaemon.disposed
    disposables,               \* the subscriptions pushed by monitorConnection
    proc,                      \* the child process, as the daemon sees it
    connection,                \* the message connection: events and requests
    calls,                     \* the public calls made on the daemon
    streams,                   \* per call: the subject returned by execAsObservable
    pythonExecutionService,    \* per call: the invocations of the fallback executor
    disposeCalls,              \* how many times dispose() has been invoked
    disposeRaised,             \* how many of them ended by raising
    gate,                      \* the last evaluation of the capability gate
    notebookProvider           \* NotebookProvider: its promise cache and its callers

vars == <<connectionClosedMessage, connectionClosedDeferred, disposed, disposables,
          proc, connection, calls, streams, pythonExecutionService, disposeCalls,
          disposeRaised, gate,
                   notebookProvider>>

daemonVars == <<connectionClosedMessage, connectionClosedDeferred, disposed,
                disposables, proc, disposeCalls, disposeRaised>>

NoOutcome == [kind |-> "none", result |-> NoResponse, error |-> NoError]
NoOptions == Options({}, "", FALSE, FALSE)
\* A call: its inputs, where it stands (pc), what its caller got (outcome),
\* and for the record whether the daemon was alive when it was made and
\* how its await of sendRequest settled
\* ("response" with the response it got, or "rejected").
IdleCall == [op |-> "none", moduleName |-> "", args |-> << >>, options |-> NoOptions,
             pc |-> "idle", outcome |-> NoOutcome,
             aliveAtCall |-> FALSE, settled |-> "none",
             response |-> NoResponse]
NoRequest == [state |-> "none", method |-> "", target |-> "", args |-> << >>, cwd |-> ""]
\* The capability gate before any evaluation.
NoGate == [args |-> << >>, moduleName |-> "", options |-> NoOptions,
           optionsSupported |-> FALSE, canExecFile |-> FALSE, canExecModule |-> FALSE,
           evaluated |-> FALSE]
NoStream == [status |-> "none", error |-> NoError, emitted |-> << >>,
             subscribed |-> FALSE, listening |-> FALSE, stdErr |-> "", timer |-> "none"]

\* NotebookProvider for one identity. A promise is named after the call that
\* made it, and a created notebook after its creation promise; a promise
\* made by Promise.resolve(notebook) holds the notebook of an earlier one.
NoPromise == 0
NoNotebook == 0
NoNotebookPromise == [state |-> "none", notebook |-> NoNotebook, disposeWhenDone |-> FALSE]
NoReturn == [kind |-> "none", id |-> 0]
IdleNotebookCall == [pc |-> "idle", getOnly |-> FALSE, rawKernel |-> FALSE,
                     returned |-> NoReturn]
\* notebooks: the promise cached for the identity; promises: every promise
\* handed to cacheNotebookPromise; disposedNotebooks: the notebooks whose
\* dispose() has run; created: the createNotebook invocations, in order.
NewNotebookProvider ==
    [notebooks |-> NoPromise,
     promises |-> [p \in NotebookCallIds |-> NoNotebookPromise],
     disposedNotebooks |-> {},
     getOrCreateCalls |-> [k \in NotebookCallIds |-> IdleNotebookCall],
     created |-> << >>]

Init ==
    /\ connectionClosedMessage = ""
    /\ connectionClosedDeferred = [state |-> "pending", reason |-> NoError]
    /\ disposed = FALSE
    /\ disposables = [subscribed |-> TRUE, teardowns |-> 0]
    /\ proc = [exited |-> FALSE, exitCode |-> Null, exitEmitted |-> FALSE,
               kills |-> 0, signals |-> 0, stderrData |-> {}]
    /\ connection = [events |-> 0, requests |-> [c \in AllCallIds |-> NoRequest],
                     notifications |-> << >>]
    /\ calls = [c \in AllCallIds |-> IdleCall]
    /\ streams = [c \in AllCallIds |-> NoStream]
    /\ pythonExecutionService = [c \in AllCallIds |-> << >>]
    /\ disposeCalls = 0
    /\ disposeRaised = 0
    /\ gate = NoGate
    /\ notebookProvider = NewNotebookProvider

\* A getter that asks the disposed flag instead of the recorded reason.
isAliveUnlessDisposed == ~disposed

\* A daemon that counts itself dead once it has answered a call with an error.
isAliveUntilDaemonError ==
    /\ connectionClosedMessage = ""
    /\ \A c \in AllCallIds : calls[c].outcome.error.type # "DaemonError"

isAlive == connectionClosedMessage = ""

\* typeof this.proc.exitCode === 'number'
exitCodeIsNumber == proc.exited /\ proc.exitCode.kind = "number"

\* ------------------------------------------------------ request dispatcher
\* sendRequest: the request goes on the connection, raced against the closed
\* promise, only while the daemon is alive and no exit code has been
\* observed; otherwise the caller is handed the closed promise alone.
\* A sendRequest that looks at isAlive only.
sendRequestSendsWhileAlive == isAlive

sendRequestSends == isAlive /\ ~exitCodeIsNumber

\* The promise sendRequest returns, as seen by the awaiting caller: already
\* rejected when the closed promise has been rejected, else pending.
Rejection == [kind |-> "rejected", response |-> NoResponse,
              error |-> connectionClosedDeferred.reason]
Answer(response) == [kind |-> "response", response |-> response, error |-> NoError]

\* JavaScript truthiness of a string field of a response.
HasText(response, field) == field \in response.fields /\ response[field] # ""

\* processResponse: the error it throws (NoError when it returns) and the
\* response object as it leaves it.
processResponse(response, options) ==
    IF HasText(response, "error")
    THEN [error |-> DaemonError("Failed to execute using the daemon, " \o response.error),
          response |-> response]
    ELSE IF HasText(response, "stderr") /\ options.throwOnStdErr
    THEN [error |-> StdErrError(response.stderr), response |-> response]
    ELSE IF HasText(response, "stderr") /\ options.mergeStdOutErr
    THEN [error |-> NoError,
          response |-> [response EXCEPT
                          !.fields = @ \cup {"stdout"},
                          !.stdout = (IF HasText(response, "stdout") THEN @ ELSE "")
                                        \o EOL \o response.stderr]]
    ELSE [error |-> NoError, response |-> response]

\* execFileWithDaemon / execModuleWithDaemon after the await of sendRequest.
execWithDaemon(settlement, options) ==
    IF settlement.kind = "rejected"
    THEN [error |-> settlement.error, response |-> NoResponse]
    ELSE processResponse(settlement.response, options)

\* A catch clause that forgets DaemonError.
FallsBackOnClosedOnly(error) == error.type = "ConnectionClosedError"

\* A catch clause that falls back on every error.
FallsBackOnAnyError(error) == error.type # ""

\* The catch clause of exec / execModule / execObservable / execModuleObservable.
FallsBack(error) == error.type \in {"DaemonError", "ConnectionClosedError"}

\* A delegation that hands over the sliced args of the daemon request.
InvocationWithSlicedArgs(call) ==
    [op |-> call.op, moduleName |-> call.moduleName, args |-> Tail(call.args),
     options |-> call.options]

Invocation(call) ==
    [op |-> call.op, moduleName |-> call.moduleName, args |-> call.args,
     options |-> call.options]

\* exec / execModule resumed with the settlement of their daemon attempt:
\* the call as it ends and the fallback invocations it has made.
ResumeBatch(call, invocations, settlement) ==
    LET attempt == execWithDaemon(settlement, call.options) IN
    IF attempt.error = NoError
    THEN [call |-> [call EXCEPT !.pc = "done", !.settled = settlement.kind,
                       !.response = settlement.response,
                       !.outcome = [kind |-> "result", result |-> attempt.response,
                                    error |-> NoError]],
          fallback |-> invocations]
    ELSE IF FallsBack(attempt.error)
    THEN [call |-> [call EXCEPT !.pc = "done", !.settled = settlement.kind,
                       !.response = settlement.response,
                       !.outcome = [kind |-> "fallback", result |-> NoResponse,
                                    error |-> attempt.error]],
          fallback |-> Append(invocations, Invocation(call))]
    ELSE [call |-> [call EXCEPT !.pc = "done", !.settled = settlement.kind,
                       !.response = settlement.response,
                       !.outcome = [kind |-> "throw", result |-> NoResponse,
                                    error |-> attempt.error]],
          fallback |-> invocations]

\* ------------------------------------------------------- streaming calls
\* A subject that goes on emitting after its terminal signal.
SubjectNextAlways(stream, out) == [stream EXCEPT !.emitted = Append(@, out)]

\* A subject that hands its subscriber the newest event first.
SubjectNextFirst(stream, out) ==
    IF stream.status = "open"
    THEN [stream EXCEPT !.emitted = << out >> \o @]
    ELSE stream

\* rxjs Subject: next, error and complete are ignored once it has stopped.
SubjectNext(stream, out) ==
    IF stream.status = "open"
    THEN [stream EXCEPT !.emitted = Append(@, out)]
    ELSE stream

SubjectError(stream, error) ==
    IF stream.status = "open"
    THEN [stream EXCEPT !.status = "errored", !.error = error]
    ELSE stream

SubjectComplete(stream) ==
    IF stream.status = "open" THEN [stream EXCEPT !.status = "completed"] ELSE stream

Output(source, out) == [source |-> source, out |-> out]

\* A subscriber that relays stderr output even under throwOnStdErr.
RelayIgnoringThrow(stream, options, out) ==
    IF out.source = "stderr" /\ options.mergeStdOutErr
    THEN SubjectNext(stream, Output("stdout", out.out))
    ELSE SubjectNext(stream, out)

\* A subscriber that relays stderr output as it is even under mergeStdOutErr.
RelayWithoutMerge(stream, options, out) ==
    IF out.source = "stderr" /\ options.throwOnStdErr
    THEN SubjectError(stream, StdErrError(out.out))
    ELSE SubjectNext(stream, out)

\* A subscriber that tests mergeStdOutErr before throwOnStdErr.
RelayMergeFirst(stream, options, out) ==
    IF out.source = "stderr" /\ options.mergeStdOutErr
    THEN SubjectNext(stream, Output("stdout", out.out))
    ELSE IF out.source = "stderr" /\ options.throwOnStdErr
    THEN SubjectError(stream, StdErrError(out.out))
    ELSE SubjectNext(stream, out)

\* The subscriber execAsObservable puts on outputObservable.
RelayOutput(stream, options, out) ==
    IF out.source = "stderr" /\ options.throwOnStdErr
    THEN SubjectError(stream, StdErrError(out.out))
    ELSE IF out.source = "stderr" /\ options.mergeStdOutErr
    THEN SubjectNext(stream, Output("stdout", out.out))
    ELSE SubjectNext(stream, out)

\* start(): the error it throws once its request has settled.
startError(settlement) ==
    IF settlement.kind = "rejected" THEN settlement.error
    ELSE IF HasText(settlement.response, "error")
    THEN DaemonError(settlement.response.error)
    ELSE NoError

\* The file or the module a call names: args[0] of a file call.
TargetOf(call) ==
    IF call.op \in {"exec", "execObservable"} THEN call.args[1] ELSE call.moduleName

\* The args handed to execAsObservable: args.slice(1) for a file.
RestOf(call) ==
    IF call.op \in {"exec", "execObservable"} THEN Tail(call.args) ELSE call.args

errorMsg(call) ==
    "Failed to run " \o TargetOf(call) \o " as observable with args "
        \o Join(RestOf(call), " ")

\* A catch handler that signals the error without the diagnostic event.
ResumeStreamWithoutDiagnostic(call, stream, settlement) ==
    LET ex == startError(settlement)
        caught == IF ex = NoError THEN stream ELSE SubjectError(stream, ex)
    IN [caught EXCEPT !.timer = "armed"]

\* start().catch(...).finally(...): the stream once start() has settled.
ResumeStream(call, stream, settlement) ==
    LET ex == startError(settlement)
        caught == IF ex = NoError THEN stream
                  ELSE SubjectError(
                         SubjectNext(stream,
                            Output("stderr", errorMsg(call) \o "\n" \o stream.stdErr)),
                         ex)
    IN [caught EXCEPT !.timer = "armed"]

IsBatch(call) == call.op \in {"exec", "execModule"}

\* A call whose await of sendRequest has not settled yet.
Waiting(c) == calls[c].pc \in {"awaitingRace", "awaitingClosed"}

\* The continuation of call c run with `settlement`.
ResumedCall(c, settlement) ==
    IF IsBatch(calls[c])
    THEN ResumeBatch(calls[c], pythonExecutionService[c], settlement).call
    ELSE [calls[c] EXCEPT !.pc = "done", !.settled = settlement.kind,
                          !.response = settlement.response]

ResumedFallback(c, settlement) ==
    IF IsBatch(calls[c])
    THEN ResumeBatch(calls[c], pythonExecutionService[c], settlement).fallback
    ELSE pythonExecutionService[c]

ResumedStream(c, settlement) ==
    IF IsBatch(calls[c])
    THEN streams[c]
    ELSE ResumeStream(calls[c], streams[c], settlement)

\* ----------------------------------------------------------- public calls
\* Calls are numbered in the order in which they are made.
CanCall(c) ==
    /\ calls[c].op = "none"
    /\ \A d \in AllCallIds : d < c => calls[d].op # "none"

NewCall(op, moduleName, args, options) ==
    [IdleCall EXCEPT !.op = op, !.moduleName = moduleName, !.args = args,
                     !.options = options, !.aliveAtCall = isAlive]

\* this.pythonExecutionService.<op>(...): the call is handed to the fallback
\* executor and what that returns is what the caller gets.
Delegate(c, call) ==
    /\ calls' = [calls EXCEPT ![c] =
                   [call EXCEPT !.pc = "done",
                        !.outcome = [kind |-> "fallback", result |-> NoResponse,
                                     error |-> NoError]]]
    /\ pythonExecutionService' =
           [pythonExecutionService EXCEPT ![c] = Append(@, Invocation(call))]
    /\ UNCHANGED <<connection, streams>>

\* sendRequest(type, params) and the await on the promise it returns.
\* `stream` is the call's stream when the request is made.
sendRequest(c, call, method, stream) ==
    LET awaiting == [call EXCEPT !.pc = IF sendRequestSends THEN "awaitingRace"
                                        ELSE "awaitingClosed"]
    IN
    /\ connection' =
           IF sendRequestSends
           THEN [connection EXCEPT !.requests[c] =
                   [state |-> "pending", method |-> method, target |-> TargetOf(call),
                    args |-> RestOf(call), cwd |-> call.options.cwd]]
           ELSE connection
    /\ IF connectionClosedDeferred.state = "rejected"
       THEN /\ calls' = [calls EXCEPT ![c] =
                           IF IsBatch(call)
                           THEN ResumeBatch(awaiting, << >>, Rejection).call
                           ELSE [awaiting EXCEPT !.pc = "done", !.settled = "rejected"]]
            /\ pythonExecutionService' = [pythonExecutionService EXCEPT ![c] =
                           IF IsBatch(call)
                           THEN ResumeBatch(awaiting, << >>, Rejection).fallback
                           ELSE @]
            /\ streams' = [streams EXCEPT ![c] =
                           IF IsBatch(call) THEN stream
                           ELSE ResumeStream(awaiting, stream, Rejection)]
       ELSE /\ calls' = [calls EXCEPT ![c] = awaiting]
            /\ streams' = [streams EXCEPT ![c] = stream]
            /\ UNCHANGED pythonExecutionService

\* A stream whose relay subscription is made only later.
NewStreamUnsubscribed == [NoStream EXCEPT !.status = "open", !.listening = TRUE]

\* new Subject(), proc.stderr.on('data', ...) and outputObservable.subscribe(...):
\* the stream of a call before start() is invoked.
NewStream == [NoStream EXCEPT !.status = "open", !.subscribed = TRUE,
                              !.listening = TRUE]

\* execAsObservable: the subject is created, the raw stderr listener and the
\* relay subscription are put in place, then start() sends its request; the
\* caller gets {proc, dispose, out} back at once.
execAsObservable(c, call, method) ==
    sendRequest(c,
                [call EXCEPT !.outcome = [kind |-> "stream", result |-> NoResponse,
                                          error |-> NoError]],
                method,
                NewStream)

exec(c, args, options) ==
    /\ CanCall(c)
    /\ LET call == NewCall("exec", "", args, options) IN
       IF isAlive /\ canExecFileUsingDaemon(args, options)
       THEN sendRequest(c, call, "exec_file", NoStream)
       ELSE Delegate(c, call)
    /\ UNCHANGED <<daemonVars, gate,
                   notebookProvider>>

execModule(c, moduleName, args, options) ==
    /\ CanCall(c)
    /\ LET call == NewCall("execModule", moduleName, args, options) IN
       IF isAlive /\ canExecModuleUsingDaemon(moduleName, args, options)
       THEN sendRequest(c, call, "exec_module", NoStream)
       ELSE Delegate(c, call)
    /\ UNCHANGED <<daemonVars, gate,
                   notebookProvider>>

execObservable(c, args, options) ==
    /\ CanCall(c)
    /\ LET call == NewCall("execObservable", "", args, options) IN
       IF isAlive /\ canExecFileUsingDaemon(args, options)
       THEN execAsObservable(c, call, "exec_file_observable")
       ELSE Delegate(c, call)
    /\ UNCHANGED <<daemonVars, gate,
                   notebookProvider>>

execModuleObservable(c, moduleName, args, options) ==
    /\ CanCall(c)
    /\ LET call == NewCall("execModuleObservable", moduleName, args, options) IN
       IF isAlive /\ canExecModuleUsingDaemon(moduleName, args, options)
       THEN execAsObservable(c, call, "exec_module_observable")
       ELSE Delegate(c, call)
    /\ UNCHANGED <<daemonVars, gate,
                   notebookProvider>>

\* A dispatcher that hands every answer to the caller, settled or not.
TakesEveryAnswer(c) == calls[c].op # "none"

\* Promise.race: the answer settles the race only if the closed promise has
\* not settled it before.
TakesAnswer(c) == calls[c].pc = "awaitingRace"

\* The daemon answers request c.
Respond(c, response) ==
    /\ connection.requests[c].state = "pending"
    /\ connection' = [connection EXCEPT !.requests[c].state = "answered"]
    /\ IF TakesAnswer(c)
       THEN /\ calls' = [calls EXCEPT ![c] = ResumedCall(c, Answer(response))]
            /\ pythonExecutionService' = [pythonExecutionService EXCEPT ![c] =
                                             ResumedFallback(c, Answer(response))]
            /\ streams' = [streams EXCEPT ![c] = ResumedStream(c, Answer(response))]
       ELSE UNCHANGED <<calls, pythonExecutionService, streams>>
    /\ UNCHANGED <<daemonVars, gate,
                   notebookProvider>>

\* A timer callback that completes the stream and keeps the subscription.
GraceTimeoutKeepsSubscription(c) ==
    /\ streams[c].timer = "armed"
    /\ streams' = [streams EXCEPT ![c] = [SubjectComplete(@) EXCEPT !.timer = "fired"]]
    /\ UNCHANGED <<daemonVars, connection, calls, pythonExecutionService, gate,
                   notebookProvider>>

\* setTimeout(..., 100) of execAsObservable fires.
GraceTimeout(c) ==
    /\ streams[c].timer = "armed"
    /\ streams' = [streams EXCEPT ![c] =
                     [SubjectComplete(@) EXCEPT !.subscribed = FALSE, !.timer = "fired"]]
    /\ UNCHANGED <<daemonVars, connection, calls, pythonExecutionService, gate,
                   notebookProvider>>

\* A relay that hands an output to the earliest subscribed call only.
OutputNotificationToFirst(out) ==
    /\ \A i \in 1..Len(connection.notifications) : connection.notifications[i] # out
    /\ connection' = [connection EXCEPT !.notifications = Append(@, out)]
    /\ streams' = [c \in AllCallIds |->
                     IF /\ streams[c].subscribed
                        /\ \A d \in AllCallIds : d < c => ~streams[d].subscribed
                     THEN RelayOutput(streams[c], calls[c].options, out)
                     ELSE streams[c]]
    /\ UNCHANGED <<daemonVars, calls, pythonExecutionService, gate,
                   notebookProvider>>

\* An 'output' notification arrives on the connection: outputObservable.next
\* hands it to the relay subscriber of every call that is still subscribed.
\* Each distinct output is notified at most once.
OutputNotification(out) ==
    /\ \A i \in 1..Len(connection.notifications) : connection.notifications[i] # out
    /\ connection' = [connection EXCEPT !.notifications = Append(@, out)]
    /\ streams' = [c \in AllCallIds |->
                     IF streams[c].subscribed
                     THEN RelayOutput(streams[c], calls[c].options, out)
                     ELSE streams[c]]
    /\ UNCHANGED <<daemonVars, calls, pythonExecutionService, gate,
                   notebookProvider>>

\* The process writes `chunk` on its raw stderr: every listener put there by
\* execAsObservable appends it to its buffer (the listeners are never removed).
StderrData(chunk) ==
    /\ chunk \notin proc.stderrData
    /\ proc' = [proc EXCEPT !.stderrData = @ \cup {chunk}]
    /\ streams' = [c \in AllCallIds |->
                     IF streams[c].listening
                     THEN [streams[c] EXCEPT !.stdErr = @ \o chunk]
                     ELSE streams[c]]
    /\ UNCHANGED <<connectionClosedMessage, connectionClosedDeferred, disposed,
                   disposables, disposeCalls, disposeRaised, connection, calls,
                   pythonExecutionService, gate,
                   notebookProvider>>

\* The three gate predicates evaluated on one set of inputs: each is a
\* function of its arguments only.
GateEvaluate(args, moduleName, options) ==
    /\ gate' = [args |-> args, moduleName |-> moduleName, options |-> options,
                optionsSupported |-> areOptionsSupported(options),
                canExecFile |-> canExecFileUsingDaemon(args, options),
                canExecModule |-> canExecModuleUsingDaemon(moduleName, args, options),
                evaluated |-> TRUE]
    /\ UNCHANGED <<daemonVars, connection, calls, streams, pythonExecutionService,
                   notebookProvider>>

\* ------------------------------------------------------ connection monitor
\* A deferred that takes the reason of every reject.
rejectAgain(deferred, reason) == [state |-> "rejected", reason |-> reason]

\* Deferred.reject: a promise settles once; a later reject changes nothing.
reject(deferred, reason) ==
    IF deferred.state = "pending"
    THEN [state |-> "rejected", reason |-> reason]
    ELSE deferred

\* A monitor that assigns the reason instead of appending to it.
AssignReason(msg, ex) ==
    msg \o (IF Truthy(ex) THEN ", With Error: " \o UtilFormat(ex) ELSE "")

\* connectionClosedMessage += msg + (ex ? `, With Error: ${util.format(ex)}` : '')
AppendReason(msg, ex) ==
    connectionClosedMessage \o msg
        \o (IF Truthy(ex) THEN ", With Error: " \o UtilFormat(ex) ELSE "")

\* A monitor that goes on recording events after dispose().
MonitorAlwaysListens == TRUE

\* if (!this.disposed) in logConnectionStatus
MonitorListens == ~disposed

\* logConnectionStatus, and the continuations of the calls that were awaiting
\* the closed promise, which run as soon as it is rejected.
logConnectionStatus(msg, ex) ==
    IF MonitorListens
    THEN LET message == AppendReason(msg, ex)
             deferred == reject(connectionClosedDeferred, ConnectionClosedError(message))
             settlement == [kind |-> "rejected", response |-> NoResponse,
                            error |-> deferred.reason]
         IN /\ connectionClosedMessage' = message
            /\ connectionClosedDeferred' = deferred
            /\ calls' = [c \in AllCallIds |->
                           IF Waiting(c) THEN ResumedCall(c, settlement) ELSE calls[c]]
            /\ pythonExecutionService' = [c \in AllCallIds |->
                           IF Waiting(c) THEN ResumedFallback(c, settlement)
                           ELSE pythonExecutionService[c]]
            /\ streams' = [c \in AllCallIds |->
                           IF Waiting(c) THEN ResumedStream(c, settlement)
                           ELSE streams[c]]
    ELSE UNCHANGED <<connectionClosedMessage, connectionClosedDeferred, calls,
                     pythonExecutionService, streams>>

\* The connection emits an event; the listener monitorConnection registered
\* runs unless dispose() has released it.
ConnectionEvent(msg, ex) ==
    /\ connection.events < MaxEvents
    /\ connection' = [connection EXCEPT !.events = @ + 1]
    /\ IF disposables.subscribed
       THEN logConnectionStatus(msg, ex)
       ELSE UNCHANGED <<connectionClosedMessage, connectionClosedDeferred, calls,
                        pythonExecutionService, streams>>
    /\ UNCHANGED <<disposed, disposables, proc, disposeCalls, disposeRaised, gate,
                   notebookProvider>>

onClose == ConnectionEvent("Daemon Connection Closed", Undefined)

onDispose == ConnectionEvent("Daemon Connection disposed", Undefined)

onError(ex) == ConnectionEvent("Daemon Connection errored", ex)

\* The process ends: its exit code becomes readable (null after a signal).
ProcessEnds(code) ==
    /\ ~proc.exited
    /\ proc' = [proc EXCEPT !.exited = TRUE, !.exitCode = code]
    /\ UNCHANGED <<connectionClosedMessage, connectionClosedDeferred, disposed,
                   disposables, disposeCalls, connection, calls, streams,
                   pythonExecutionService, disposeRaised, gate,
                   notebookProvider>>

\* proc.on('exit', code => ...): this listener is not among the disposables.
onExit ==
    /\ proc.exited
    /\ ~proc.exitEmitted
    /\ proc' = [proc EXCEPT !.exitEmitted = TRUE]
    /\ logConnectionStatus("Daemon Processed died with exit code", proc.exitCode)
    /\ UNCHANGED <<disposed, disposables, disposeCalls, connection, disposeRaised,
                   gate,
                   notebookProvider>>

\* -------------------------------------------------------------- lifecycle
DisposedMessage == "Daemon disposed from dispose()"

\* A dispose() without its once-only guard.
EveryDispose == TRUE

\* if (!this.disposed)
FirstDispose == ~disposed

\* A dispose() whose kill step is not wrapped in try/catch.
PropagatesKillFailure == FALSE

\* try { ... this.proc.kill(...) } catch { noop(); }
SwallowsKillFailure == TRUE

\* dispose(); `killThrows` tells whether proc.kill raises. A failure of the
\* kill that is not swallowed ends dispose() before the subscriptions are
\* released.
dispose(killThrows) ==
    /\ disposeCalls < MaxDisposeCalls
    /\ disposeCalls' = disposeCalls + 1
    /\ connectionClosedMessage' = DisposedMessage
    /\ IF FirstDispose
       THEN /\ disposed' = TRUE
            /\ proc' = [proc EXCEPT !.kills = @ + 1,
                                    !.signals = IF killThrows THEN @ ELSE @ + 1]
            /\ IF killThrows /\ ~SwallowsKillFailure
               THEN /\ disposeRaised' = disposeRaised + 1
                    /\ UNCHANGED disposables
               ELSE /\ disposables' = [subscribed |-> FALSE,
                                       teardowns |-> disposables.teardowns + 1]
                    /\ UNCHANGED disposeRaised
       ELSE UNCHANGED <<disposed, proc, disposables, disposeRaised>>
    /\ UNCHANGED <<connectionClosedDeferred, connection, calls, streams,
                   pythonExecutionService, gate,
                   notebookProvider>>

\* A returned object whose dispose() only ends the stream it came with.
disposeStreamOnly(c, killThrows) ==
    /\ calls[c].outcome.kind = "stream"
    /\ disposeCalls < MaxDisposeCalls
    /\ disposeCalls' = disposeCalls + 1
    /\ streams' = [streams EXCEPT ![c] = [SubjectComplete(@) EXCEPT !.subscribed = FALSE]]
    /\ UNCHANGED <<connectionClosedMessage, connectionClosedDeferred, disposed,
                   disposables, proc, disposeRaised, connection, calls,
                   pythonExecutionService, gate,
                   notebookProvider>>

\* The caller of streaming call c invokes dispose() of the object the call
\* returned: { proc, dispose: () => this.dispose(), out }.
disposeStream(c, killThrows) ==
    /\ calls[c].outcome.kind = "stream"
    /\ dispose(killThrows)

\* ------------------------------------------------------------ environment
\* proc.kill() returns normally in this specification.
KillThrows == {FALSE}
FileArgs == {<<"script.py", "--flag">>, <<"tool.exe">>}
ModuleNames == {"pip"}
ModuleArgs == {<<"list">>}
CallOptions ==
    {NoOptions,
     Options({"throwOnStdErr"}, "", TRUE, FALSE),
     Options({"cwd", "shell"}, "/tmp", FALSE, FALSE)}
ObservableOptions ==
    {NoOptions,
     Options({"cwd", "shell"}, "/tmp", FALSE, FALSE)}
BatchResponses ==
    {Response({"stdout"}, "", "pkg==1.0", ""),
     Response({"stdout", "stderr"}, "", "out", "warn"),
     Response({"error"}, "boom", "", "")}
StreamResponses ==
    {NoResponse, Response({"error"}, "boom", "", "")}
ResponsesFor(c) ==
    IF IsBatch(calls[c]) THEN BatchResponses ELSE StreamResponses

Next ==
    \/ \E c \in CallIds, args \in FileArgs, options \in CallOptions :
          exec(c, args, options)
    \/ \E c \in CallIds, m \in ModuleNames, args \in ModuleArgs, options \in CallOptions :
          execModule(c, m, args, options)
    \/ \E c \in CallIds, args \in FileArgs, options \in ObservableOptions :
          execObservable(c, args, options)
    \/ \E c \in CallIds, m \in ModuleNames, args \in ModuleArgs,
             options \in ObservableOptions :
          execModuleObservable(c, m, args, options)
    \/ \E c \in CallIds : \E response \in ResponsesFor(c) : Respond(c, response)
    \/ \E c \in CallIds : GraceTimeout(c)
    \/ onClose
    \/ onDispose
    \/ \E ex \in ConnectionErrors : onError(ex)
    \/ \E code \in ExitCodes : ProcessEnds(code)
    \/ onExit
    \/ \E killThrows \in KillThrows : dispose(killThrows)

Spec == Init /\ [][Next]_vars

\* ------------------------------------------- environment: output handling
\* Calls that ask for stderr handling and a daemon that sends output
\* notifications.
OutputFileArgs == {<<"script.py", "--flag">>}
OutputOptions ==
    {NoOptions,
     Options({"throwOnStdErr"}, "", TRUE, FALSE),
     Options({"mergeStdOutErr"}, "", FALSE, TRUE),
     Options({"throwOnStdErr", "mergeStdOutErr"}, "", TRUE, TRUE)}
OutputBatchOptions == OutputOptions \ {NoOptions}
OutputBatchResponses ==
    {Response({"stdout", "stderr"}, "", "out", "warn"),
     Response({"stderr"}, "", "", "warn")}
Outputs == {Output("stdout", "hello\n"), Output("stderr", "warn\n"),
            Output("stderr", "again\n")}
OutputResponsesFor(c) ==
    IF IsBatch(calls[c]) THEN OutputBatchResponses ELSE StreamResponses

NextOutput ==
    \/ \E c \in CallIds, args \in OutputFileArgs, options \in OutputBatchOptions :
          exec(c, args, options)
    \/ \E c \in CallIds, m \in ModuleNames, args \in ModuleArgs,
             options \in OutputBatchOptions :
          execModule(c, m, args, options)
    \/ \E c \in CallIds, args \in OutputFileArgs, options \in OutputOptions :
          execObservable(c, args, options)
    \/ \E c \in CallIds, m \in ModuleNames, args \in ModuleArgs,
             options \in OutputOptions :
          execModuleObservable(c, m, args, options)
    \/ \E c \in CallIds : \E response \in OutputResponsesFor(c) : Respond(c, response)
    \/ \E c \in CallIds : GraceTimeout(c)
    \/ \E out \in Outputs : OutputNotification(out)

SpecOutput == Init /\ [][NextOutput]_vars

\* setTimeout callbacks that are due are run by the event loop.
SpecOutputFair == SpecOutput /\ \A c \in CallIds : WF_vars(GraceTimeout(c))

\* ---------------------------------------- environment: streaming start
\* Streaming calls on a daemon that writes on its raw stderr and whose
\* connection may close before the start request is answered.
StartOptions == {NoOptions, Options({"throwOnStdErr"}, "", TRUE, FALSE)}
StartOutputs == {Output("stderr", "warn\n")}
StderrChunks == {"Traceback"}

NextStart ==
    \/ \E c \in CallIds, args \in OutputFileArgs, options \in StartOptions :
          execObservable(c, args, options)
    \/ \E c \in CallIds, m \in ModuleNames, args \in ModuleArgs,
             options \in StartOptions :
          execModuleObservable(c, m, args, options)
    \/ \E c \in CallIds : \E response \in StreamResponses : Respond(c, response)
    \/ \E c \in CallIds : GraceTimeout(c)
    \/ \E out \in StartOutputs : OutputNotification(out)
    \/ \E chunk \in StderrChunks : StderrData(chunk)
    \/ onClose

SpecStart == Init /\ [][NextStart]_vars

\* ------------------------------------------------- environment: session
\* Several calls on one daemon, in a row or at the same time: batch calls the
\* daemon may answer with an error, streaming calls that share the output of
\* the daemon and whose callers may dispose what they got back.
SessionOutputs == {Output("stdout", "hello\n"), Output("stderr", "warn\n")}
SessionBatchResponses ==
    {Response({"stdout"}, "", "pkg==1.0", ""), Response({"error"}, "boom", "", "")}
SessionResponsesFor(c) ==
    IF IsBatch(calls[c]) THEN SessionBatchResponses ELSE {NoResponse}

NextSession ==
    \/ \E c \in SessionCallIds, args \in OutputFileArgs : exec(c, args, NoOptions)
    \/ \E c \in SessionCallIds, m \in ModuleNames, args \in ModuleArgs :
          execModule(c, m, args, NoOptions)
    \/ \E c \in SessionCallIds, args \in OutputFileArgs :
          execObservable(c, args, NoOptions)
    \/ \E c \in SessionCallIds, m \in ModuleNames, args \in ModuleArgs :
          execModuleObservable(c, m, args, NoOptions)
    \/ \E c \in SessionCallIds : \E response \in SessionResponsesFor(c) :
          Respond(c, response)
    \/ \E c \in SessionCallIds : GraceTimeout(c)
    \/ \E out \in SessionOutputs : OutputNotification(out)
    \/ \E c \in SessionCallIds, killThrows \in KillThrows : disposeStream(c, killThrows)

SpecSession == Init /\ [][NextSession]_vars

\* ------------------------------------------- environment: capability gate
\* The six supported option keys and one unsupported key, and file names
\* with and without the script suffix in either case. Successive evaluations
\* differ by one option key, which reaches every combination of the keys.
GateOptionKeys ==
    {"cwd", "env", "throwOnStdErr", "token", "encoding", "mergeStdOutErr", "shell"}
OptionsWithKeys(keys) ==
    Options(keys, IF "cwd" \in keys THEN "/tmp" ELSE "", "throwOnStdErr" \in keys,
            "mergeStdOutErr" \in keys)
Toggled(options, key) ==
    OptionsWithKeys(IF key \in options.keys THEN options.keys \ {key}
                    ELSE options.keys \cup {key})
GateFileArgs == {<<"script.py">>, <<"SCRIPT.PY", "-v">>, <<"tool.exe">>, <<"py">>,
                 <<"notes.py.txt">>}
GateCallArgs == {<<"SCRIPT.PY", "-v">>, <<"tool.exe">>}
GateCallOptions ==
    {OptionsWithKeys({"env", "token", "encoding"}),
     OptionsWithKeys({"cwd", "shell"})}

NextGate ==
    \/ \E args \in GateFileArgs, m \in ModuleNames, key \in GateOptionKeys :
          GateEvaluate(args, m, Toggled(gate.options, key))
    \/ \E c \in CallIds, args \in GateCallArgs, options \in GateCallOptions :
          exec(c, args, options)
    \/ \E c \in CallIds, args \in GateCallArgs, options \in GateCallOptions :
          execObservable(c, args, options)

SpecGate == Init /\ [][NextGate]_vars

\* ------------------------------------------------ environment: disposal
\* Owners that dispose the daemon while proc.kill may raise (the process is
\* gone, the handle is invalid), next to the events of the monitor.
KillOutcomes == BOOLEAN

NextDispose ==
    \/ \E killThrows \in KillOutcomes : dispose(killThrows)
    \/ \E c \in CallIds, m \in ModuleNames, args \in ModuleArgs, options \in CallOptions :
          execModule(c, m, args, options)
    \/ \E c \in CallIds : \E response \in BatchResponses : Respond(c, response)
    \/ onClose
    \/ onDispose
    \/ \E ex \in ConnectionErrors : onError(ex)
    \/ \E code \in ExitCodes : ProcessEnds(code)
    \/ onExit

SpecDispose == Init /\ [][NextDispose]_vars

\* ------------------------------------------------------- notebook provider
\* An eviction that does not look at what is cached.
removeFromCacheAlways(cachedPromise, promise) == NoPromise

\* removeFromCache of cacheNotebookPromise: what the cache holds after the
\* closure made for promise has run on a cache holding cachedPromise.
removeFromCache(cachedPromise, promise) ==
    IF cachedPromise = promise THEN NoPromise ELSE cachedPromise

\* The promises whose then-handler has put removeFromCache on the
\* onDisposed event of notebook nb.
OnDisposedListeners(nb) ==
    {p \in NotebookCallIds : /\ notebookProvider.promises[p].state = "resolved"
                             /\ notebookProvider.promises[p].notebook = nb}

\* nb.dispose() on a cache holding cachedPromise: every listener runs.
FireOnDisposed(cachedPromise, nb) ==
    IF \E p \in OnDisposedListeners(nb) :
          removeFromCache(cachedPromise, p) = NoPromise
    THEN NoPromise
    ELSE cachedPromise

\* The notebooks the underlying provider has made so far.
ExistingNotebooks ==
    {p \in NotebookCallIds : /\ notebookProvider.promises[p].state = "resolved"
                             /\ notebookProvider.promises[p].notebook = p}

ReturnFrom(k, kind, id) ==
    [notebookProvider.getOrCreateCalls[k] EXCEPT !.pc = "done",
                                                 !.returned = [kind |-> kind, id |-> id]]

\* The tail of getOrCreateNotebook: createNotebook, cacheNotebookPromise,
\* return promise.
CreateAndCache(k) ==
    notebookProvider' =
        [notebookProvider EXCEPT
            !.created = Append(@, k),
            !.promises[k] = [state |-> "pending", notebook |-> NoNotebook,
                             disposeWhenDone |-> FALSE],
            !.notebooks = k,
            !.getOrCreateCalls[k] = ReturnFrom(k, "promise", k)]

\* getOrCreateNotebook up to its first await: the cached promise is
\* returned, or the call waits for getNotebook of the underlying provider.
getOrCreateNotebook(k, getOnly, rawKernel) ==
    /\ notebookProvider.getOrCreateCalls[k].pc = "idle"
    /\ \A j \in NotebookCallIds :
          j < k => notebookProvider.getOrCreateCalls[j].pc # "idle"
    /\ notebookProvider' =
          IF notebookProvider.notebooks # NoPromise
          THEN [notebookProvider EXCEPT
                   !.getOrCreateCalls[k] =
                       [ReturnFrom(k, "promise", notebookProvider.notebooks)
                           EXCEPT !.getOnly = getOnly, !.rawKernel = rawKernel]]
          ELSE [notebookProvider EXCEPT
                   !.getOrCreateCalls[k] =
                       [pc |-> "getNotebook", getOnly |-> getOnly,
                        rawKernel |-> rawKernel, returned |-> NoReturn]]
    /\ UNCHANGED <<daemonVars, connection, calls, streams, pythonExecutionService,
                   gate>>

\* The call resumes with what getNotebook gave: a notebook of the underlying
\* provider or undefined (NoNotebook).
ResumeAfterGetNotebook(k, notebook) ==
    LET call == notebookProvider.getOrCreateCalls[k] IN
    /\ call.pc = "getNotebook"
    /\ notebook \in ExistingNotebooks \cup {NoNotebook}
    /\ IF notebook # NoNotebook /\ notebook \notin notebookProvider.disposedNotebooks
       THEN notebookProvider' =
               [notebookProvider EXCEPT
                   !.promises[k] = [state |-> "resolved", notebook |-> notebook,
                                    disposeWhenDone |-> FALSE],
                   !.notebooks = k,
                   !.getOrCreateCalls[k] = ReturnFrom(k, "notebook", notebook)]
       ELSE IF call.getOnly
       THEN notebookProvider' =
               [notebookProvider EXCEPT
                   !.getOrCreateCalls[k] = ReturnFrom(k, "undefined", 0)]
       ELSE IF ~call.rawKernel
       THEN notebookProvider' =
               [notebookProvider EXCEPT !.getOrCreateCalls[k].pc = "connect"]
       ELSE CreateAndCache(k)
    /\ UNCHANGED <<daemonVars, connection, calls, streams, pythonExecutionService,
                   gate>>

\* The call resumes with what jupyterNotebookProvider.connect gave.
ResumeAfterConnect(k, connected) ==
    /\ notebookProvider.getOrCreateCalls[k].pc = "connect"
    /\ IF ~connected
       THEN notebookProvider' =
               [notebookProvider EXCEPT
                   !.getOrCreateCalls[k] = ReturnFrom(k, "undefined", 0)]
       ELSE CreateAndCache(k)
    /\ UNCHANGED <<daemonVars, connection, calls, streams, pythonExecutionService,
                   gate>>

\* A creation promise resolves: its then-handlers run in the order they were
\* added, the one of cacheNotebookPromise first (it listens to onDisposed),
\* then the one of a disposeAssociatedNotebook that waited (nb.dispose()).
NotebookPromiseResolves(p) ==
    /\ notebookProvider.promises[p].state = "pending"
    /\ notebookProvider' =
          IF notebookProvider.promises[p].disposeWhenDone
          THEN [notebookProvider EXCEPT
                   !.promises[p] = [@ EXCEPT !.state = "resolved", !.notebook = p],
                   !.disposedNotebooks = @ \cup {p},
                   !.notebooks = removeFromCache(@, p)]
          ELSE [notebookProvider EXCEPT
                   !.promises[p] = [@ EXCEPT !.state = "resolved", !.notebook = p]]
    /\ UNCHANGED <<daemonVars, connection, calls, streams, pythonExecutionService,
                   gate>>

\* A creation promise rejects: promise.catch(removeFromCache).
NotebookPromiseRejects(p) ==
    /\ notebookProvider.promises[p].state = "pending"
    /\ notebookProvider' =
          [notebookProvider EXCEPT
              !.promises[p].state = "rejected",
              !.notebooks = removeFromCache(@, p)]
    /\ UNCHANGED <<daemonVars, connection, calls, streams, pythonExecutionService,
                   gate>>

\* A notebook is disposed by its owner: onDisposed fires.
NotebookDisposed(nb) ==
    /\ nb \in ExistingNotebooks
    /\ nb \notin notebookProvider.disposedNotebooks
    /\ notebookProvider' =
          [notebookProvider EXCEPT
              !.disposedNotebooks = @ \cup {nb},
              !.notebooks = FireOnDisposed(@, nb)]
    /\ UNCHANGED <<daemonVars, connection, calls, streams, pythonExecutionService,
                   gate>>

\* disposeAssociatedNotebook: the cached promise is taken out at once, and
\* its notebook is disposed when the promise has resolved.
disposeAssociatedNotebook ==
    LET nbPromise == notebookProvider.notebooks IN
    /\ nbPromise # NoPromise
    /\ notebookProvider' =
          IF notebookProvider.promises[nbPromise].state = "resolved"
          THEN [notebookProvider EXCEPT
                   !.notebooks = NoPromise,
                   !.disposedNotebooks =
                       @ \cup {notebookProvider.promises[nbPromise].notebook}]
          ELSE [notebookProvider EXCEPT
                   !.notebooks = NoPromise,
                   !.promises[nbPromise].disposeWhenDone = TRUE]
    /\ UNCHANGED <<daemonVars, connection, calls, streams, pythonExecutionService,
                   gate>>

\* ------------------------------------------- environment: notebook provider
NextNotebooks ==
    \/ \E k \in NotebookCallIds, getOnly \in BOOLEAN, rawKernel \in BOOLEAN :
          getOrCreateNotebook(k, getOnly, rawKernel)
    \/ \E k \in NotebookCallIds, notebook \in NotebookCallIds \cup {NoNotebook} :
          ResumeAfterGetNotebook(k, notebook)
    \/ \E k \in NotebookCallIds, connected \in BOOLEAN : ResumeAfterConnect(k, connected)
    \/ \E p \in NotebookCallIds : NotebookPromiseResolves(p)
    \/ \E p \in NotebookCallIds : NotebookPromiseRejects(p)
    \/ \E nb \in NotebookCallIds : NotebookDisposed(nb)
    \/ disposeAssociatedNotebook

SpecNotebooks == Init /\ [][NextNotebooks]_vars

\* ================================================================= claims
IsPrefix(s, t) == Len(s) <= Len(t) /\ SubSeq(t, 1, Len(s)) = s

\* No connection-closed, connection-disposed, connection-error or
\* process-exit event has fired and dispose() has not been called.
NoClosingEvent ==
    /\ connection.events = 0
    /\ ~proc.exitEmitted
    /\ disposeCalls = 0

\* C1: in every reachable state isAlive is true exactly when no closing event
\* (connection closed, disposed or errored, process exit) has fired and
\* dispose() has not been called; and a step never takes isAlive from false
\* back to true.
C1_AliveIffNoClosingEvent ==
    /\ [](isAlive <=> NoClosingEvent)
    /\ [][~isAlive => ~isAlive']_vars

\* C1 witness: a connection event alone has fired and the daemon is not alive.
C1_Witness ==
    /\ connection.events = 1
    /\ disposeCalls = 0
    /\ ~proc.exitEmitted
    /\ ~isAlive

\* C2 as stated: once a reason has been recorded, no later step changes it.
C2_ReasonSetOnce ==
    [][connectionClosedMessage # "" =>
          connectionClosedMessage' = connectionClosedMessage]_vars

\* C2 amended: the recorded reason is never cleared; while dispose() has not
\* run, a later event only appends to it (the old reason stays a prefix of the
\* new one); dispose() replaces it by DisposedMessage; and once dispose() has
\* run no event and no dispose() call changes it.
C2_ReasonNeverCleared ==
    [][/\ connectionClosedMessage # "" => connectionClosedMessage' # ""
       /\ ~disposed' => IsPrefix(connectionClosedMessage, connectionClosedMessage')
       /\ disposed' => connectionClosedMessage' = DisposedMessage
       /\ disposed => connectionClosedMessage' = connectionClosedMessage]_vars

\* C2 witness: two events have fired before any dispose() and the reason holds
\* the text of both, the first one first.
C2_Witness ==
    /\ ~disposed
    /\ connectionClosedMessage =
         "Daemon Connection Closed" \o "Daemon Processed died with exit code, With Error: 1"

\* C3: whatever the number of dispose() calls and however they interleave with
\* the events, after the first of them proc.kill has been called exactly once
\* (one kill signal sent) and the subscriptions have been torn down exactly
\* once (none of either before it), and every dispose() after the first
\* changes nothing of the daemon besides being counted.
C3_DisposeOnce ==
    /\ [](/\ disposeCalls = 0 => proc.kills = 0 /\ disposables.teardowns = 0
          /\ disposeCalls >= 1 => /\ proc.kills = 1
                                  /\ disposables.teardowns = 1
                                  /\ ~disposables.subscribed)
    /\ [][(disposeCalls >= 1 /\ disposeCalls' # disposeCalls) =>
             UNCHANGED <<connectionClosedMessage, connectionClosedDeferred, disposed,
                         disposables, proc, connection, calls, streams,
                         pythonExecutionService>>]_vars

\* C3 witness: dispose() has been called twice, with the process exit event
\* fired as well, and there was one kill and one teardown.
C3_Witness ==
    /\ disposeCalls = 2
    /\ proc.exitEmitted
    /\ proc.kills = 1
    /\ disposables.teardowns = 1

\* C4 as stated: once dispose() has run, a request that was sent and has not
\* been answered has settled through the closed-state path: the closed
\* promise is rejected with a ConnectionClosedError and the call is no longer
\* waiting.
C4_DisposeRejectsClosed ==
    \A c \in CallIds :
        (disposed /\ connection.requests[c].state = "pending") =>
            /\ connectionClosedDeferred.state = "rejected"
            /\ connectionClosedDeferred.reason.type = "ConnectionClosedError"
            /\ calls[c].settled = "rejected"

\* C5 as stated: once the daemon has closed (a connection event or the process
\* exit event has fired, also after dispose()), no request is left unsettled.
C5_NoCallWaitsOnceClosed ==
    (connection.events > 0 \/ proc.exitEmitted) => \A c \in CallIds : ~Waiting(c)

\* The response a call was settled with carries an error field.
AnsweredWithError(c) ==
    calls[c].settled = "response" /\ HasText(calls[c].response, "error")

\* C6: a request settles once, with whichever of the answer and the closed
\* signal comes first: a settled call never changes again, whatever arrives
\* later; a call settled by the closed signal ended with the
\* ConnectionClosedError the closed promise was rejected with, before any
\* answer; a call settled by an answer had its request answered; and no call
\* is left racing once the closed promise is rejected.
C6_SettlesOnce ==
    /\ [](\A c \in CallIds :
            /\ calls[c].settled = "rejected" =>
                 /\ connectionClosedDeferred.state = "rejected"
                 /\ calls[c].response = NoResponse
                 /\ IsBatch(calls[c]) =>
                      calls[c].outcome.error = connectionClosedDeferred.reason
                 /\ ~IsBatch(calls[c]) =>
                      streams[c].error = connectionClosedDeferred.reason
            /\ calls[c].settled = "response" =>
                 connection.requests[c].state = "answered"
            /\ connectionClosedDeferred.state = "rejected" => ~Waiting(c))
    /\ [][\A c \in CallIds :
            calls[c].settled # "none" =>
               /\ calls'[c] = calls[c]
               /\ pythonExecutionService'[c] = pythonExecutionService[c]
               /\ streams'[c].error = streams[c].error
               /\ streams'[c].emitted = streams[c].emitted]_vars

\* C6 witness: a request was sent, the closed signal settled the call, and the
\* daemon's answer arrived afterwards.
C6_Witness ==
    \E c \in CallIds :
        /\ calls[c].op = "exec"
        /\ calls[c].settled = "rejected"
        /\ calls[c].outcome.error.type = "ConnectionClosedError"
        /\ connection.requests[c].state = "answered"

\* The capability gate, for the call's operation.
GateAccepts(call) ==
    IF call.op \in {"exec", "execObservable"}
    THEN canExecFileUsingDaemon(call.args, call.options)
    ELSE canExecModuleUsingDaemon(call.moduleName, call.args, call.options)

\* The one fallback invocation with the caller's own arguments.
SameCall(c) ==
    <<[op |-> calls[c].op, moduleName |-> calls[c].moduleName,
       args |-> calls[c].args, options |-> calls[c].options]>>

\* C7: a call of any of the four operations made while the daemon is not
\* alive or refused by the gate puts no request on the connection and invokes
\* the fallback executor's same operation exactly once with the caller's args
\* and options; the daemon is not alive once the closed promise is rejected,
\* so every call made after that is served this way.
C7_RejectedCallsDelegate ==
    /\ connectionClosedDeferred.state = "rejected" => ~isAlive
    /\ \A c \in CallIds :
          (calls[c].op # "none" /\ (~calls[c].aliveAtCall \/ ~GateAccepts(calls[c]))) =>
              /\ connection.requests[c].state = "none"
              /\ pythonExecutionService[c] = SameCall(c)
              /\ calls[c].outcome.kind = "fallback"
              /\ calls[c].settled = "none"
              /\ streams[c] = NoStream

\* C7 witness: a streaming call the gate accepts, made after the closed
\* promise was rejected, was handed to the fallback executor.
C7_Witness ==
    /\ connectionClosedDeferred.state = "rejected"
    /\ \E c \in CallIds :
          /\ calls[c].op = "execObservable"
          /\ GateAccepts(calls[c])
          /\ ~calls[c].aliveAtCall
          /\ Len(pythonExecutionService[c]) = 1

\* C8: an exec or execModule call whose daemon attempt ended with a
\* ConnectionClosedError (the closed signal won) or a DaemonError (error field
\* in the response) has invoked the fallback executor's same operation
\* exactly once with the call's own args and options, and the caller gets
\* what that returns.
C8_BatchFailureFallsBack ==
    \A c \in CallIds :
        (IsBatch(calls[c]) /\ (calls[c].settled = "rejected" \/ AnsweredWithError(c))) =>
            /\ pythonExecutionService[c] = SameCall(c)
            /\ calls[c].pc = "done"
            /\ calls[c].outcome.kind = "fallback"
            /\ calls[c].outcome.error.type =
                  (IF calls[c].settled = "rejected" THEN "ConnectionClosedError"
                   ELSE "DaemonError")

\* C8 witness: exec(["script.py", "--flag"], {}) was sent to the daemon, the
\* process exited before the answer, and the fallback was invoked once.
C8_Witness ==
    \E c \in CallIds :
        /\ calls[c].op = "exec"
        /\ calls[c].args = <<"script.py", "--flag">>
        /\ calls[c].options = NoOptions
        /\ connection.requests[c].state = "pending"
        /\ proc.exitEmitted
        /\ calls[c].settled = "rejected"
        /\ pythonExecutionService[c] = SameCall(c)

\* The start request of a streaming call failed: the closed signal won, or the
\* response carries an error field.
StartFailed(c) ==
    /\ calls[c].op \in {"execObservable", "execModuleObservable"}
    /\ calls[c].settled = "rejected" \/ AnsweredWithError(c)

\* C9 as stated: a streaming call whose start request failed with a
\* ConnectionClosedError or a DaemonError has invoked the fallback executor's
\* observable operation, and the failure is not surfaced on the stream.
C9_StreamFailureFallsBack ==
    \A c \in CallIds :
        StartFailed(c) =>
            /\ pythonExecutionService[c] = SameCall(c)
            /\ streams[c].status # "errored"

\* C10: an exec or execModule call answered without an error field but with
\* stderr text, under throwOnStdErr, ends by throwing the StdErrError that
\* carries that stderr text, and the fallback executor is not invoked for it.
C10_StdErrErrorPropagates ==
    \A c \in CallIds :
        (/\ IsBatch(calls[c])
         /\ calls[c].settled = "response"
         /\ ~HasText(calls[c].response, "error")
         /\ HasText(calls[c].response, "stderr")
         /\ calls[c].options.throwOnStdErr) =>
            /\ calls[c].pc = "done"
            /\ calls[c].outcome.kind = "throw"
            /\ calls[c].outcome.error = StdErrError(calls[c].response.stderr)
            /\ pythonExecutionService[c] = << >>

\* C10 witness: such a call has ended with a StdErrError.
C10_Witness ==
    \E c \in CallIds :
        /\ calls[c].op = "execModule"
        /\ calls[c].options.throwOnStdErr
        /\ calls[c].settled = "response"
        /\ calls[c].outcome.error.type = "StdErrError"
        /\ calls[c].outcome.error.message = "warn"

\* Claim C11: when exec or execModule is served by the daemon with
\* mergeStdOutErr set and throwOnStdErr not set, and the response has no error
\* and a non-empty stderr, the returned result's stdout is the original
\* stdout, the line separator and stderr, and the result has no stderr field.
MergeCase(c) ==
    /\ IsBatch(calls[c])
    /\ calls[c].settled = "response"
    /\ calls[c].options.mergeStdOutErr
    /\ ~calls[c].options.throwOnStdErr
    /\ ~HasText(calls[c].response, "error")
    /\ HasText(calls[c].response, "stderr")

C11_MergedResultDropsStdErr ==
    \A c \in CallIds :
        MergeCase(c) =>
            /\ calls[c].outcome.kind = "result"
            /\ calls[c].outcome.result.stdout =
                   (IF "stdout" \in calls[c].response.fields
                    THEN calls[c].response.stdout ELSE "")
                       \o "\n" \o calls[c].response.stderr
            /\ "stderr" \notin calls[c].outcome.result.fields

\* The output notification `out` arrives in this step.
Arrives(out) == connection'.notifications = Append(connection.notifications, out)

\* Call c is a streaming call the daemon serves, it is subscribed to the
\* relay and its stream has had no terminal signal.
LiveStream(c) ==
    /\ calls[c].outcome.kind = "stream"
    /\ streams[c].subscribed
    /\ streams[c].status = "open"

\* Claim C12: with throwOnStdErr set, non-empty stderr makes the call fail
\* with a StdErrError and no successful result. Batch path: a response that
\* reaches post-processing (no error field) with non-empty stderr makes
\* exec/execModule throw StdErrError(stderr) and return no result. Streaming
\* path: the first stderr output relayed to a live stream errors it with
\* StdErrError(text) without emitting the event, and a stream that has
\* errored stays errored: it never signals normal completion.
C12_BatchThrows ==
    \A c \in CallIds :
        (/\ IsBatch(calls[c])
         /\ calls[c].settled = "response"
         /\ calls[c].options.throwOnStdErr
         /\ ~HasText(calls[c].response, "error")
         /\ HasText(calls[c].response, "stderr"))
        => /\ calls[c].outcome.kind = "throw"
           /\ calls[c].outcome.error = StdErrError(calls[c].response.stderr)
           /\ calls[c].outcome.result = NoResponse
           /\ pythonExecutionService[c] = << >>

C12_StreamThrows ==
    \A c \in CallIds :
        /\ \A out \in Outputs :
               (/\ Arrives(out)
                /\ out.source = "stderr"
                /\ LiveStream(c)
                /\ calls[c].options.throwOnStdErr)
               => /\ streams'[c].status = "errored"
                  /\ streams'[c].error = StdErrError(out.out)
                  /\ streams'[c].emitted = streams[c].emitted
        /\ streams[c].status = "errored"
               => /\ streams'[c].status = "errored"
                  /\ streams'[c].error = streams[c].error

C12_ThrowOnStdErr == []C12_BatchThrows /\ [][C12_StreamThrows]_vars

\* A streaming call under throwOnStdErr was ended by a stderr output, a later
\* stderr output has arrived and its grace period is over.
C12_Witness ==
    \E c \in CallIds :
        /\ calls[c].outcome.kind = "stream"
        /\ calls[c].options.throwOnStdErr
        /\ streams[c].status = "errored"
        /\ streams[c].error.type = "StdErrError"
        /\ streams[c].timer = "fired"
        /\ Len(connection.notifications) = 3

\* Claim C13: areOptionsSupported(options) is true exactly when every key of
\* options is one of cwd, env, throwOnStdErr, token, encoding, mergeStdOutErr,
\* whatever the number of keys; canExecModuleUsingDaemon gives the same answer
\* for every module name and args; the answer is a function of the options
\* of the evaluation alone, whatever was evaluated or called before.
OnlyAllowListedKeys(keys) ==
    \A k \in keys :
        \/ k = "cwd" \/ k = "env" \/ k = "throwOnStdErr"
        \/ k = "token" \/ k = "encoding" \/ k = "mergeStdOutErr"

C13_OptionsSupportedIffAllowListed ==
    gate.evaluated =>
        /\ gate.optionsSupported = OnlyAllowListedKeys(gate.options.keys)
        /\ gate.canExecModule = gate.optionsSupported

\* The gate accepts options that hold all six supported keys, after an
\* earlier file call was turned away for an unsupported key.
C13_Witness ==
    /\ gate.evaluated
    /\ Cardinality(gate.options.keys) = 6
    /\ gate.optionsSupported
    /\ gate.canExecModule
    /\ \E c \in CallIds :
           /\ "shell" \in calls[c].options.keys
           /\ calls[c].outcome.kind = "fallback"

\* Claim C14: canExecFileUsingDaemon(args, options) is true exactly when the
\* lower-cased first argument ends with '.py' and the options are supported;
\* a file call whose path does not end with that suffix is never sent to the
\* daemon, whatever its options: it is delegated to the fallback executor.
ScriptNames == {"script.py", "SCRIPT.PY"}

C14_FileGateNeedsScriptSuffix ==
    /\ gate.evaluated =>
           gate.canExecFile = (/\ gate.args[1] \in ScriptNames
                               /\ OnlyAllowListedKeys(gate.options.keys))
    /\ \A c \in CallIds :
           (/\ calls[c].op \in {"exec", "execObservable"}
            /\ calls[c].args[1] \notin ScriptNames)
           => /\ calls[c].outcome.kind = "fallback"
              /\ connection.requests[c] = NoRequest
              /\ streams[c] = NoStream
              /\ pythonExecutionService[c] =
                     << [op |-> calls[c].op, moduleName |-> "",
                         args |-> calls[c].args, options |-> calls[c].options] >>

\* A file call for an executable with supported options was made on an alive
\* daemon and delegated, and the gate has turned away a name that merely
\* contains the suffix.
C14_Witness ==
    /\ \E c \in CallIds :
           /\ calls[c].op = "exec"
           /\ calls[c].args[1] = "tool.exe"
           /\ calls[c].options.keys = {"env", "token", "encoding"}
           /\ calls[c].aliveAtCall
           /\ calls[c].outcome.kind = "fallback"
    /\ gate.evaluated
    /\ gate.args[1] = "notes.py.txt"
    /\ gate.optionsSupported
    /\ ~gate.canExecFile

\* The stream of call c takes `out` in this step: it emits one more event
\* with the text of `out`, or it ends with a StdErrError carrying that text.
Relayed(c, out) ==
    \/ /\ Len(streams'[c].emitted) = Len(streams[c].emitted) + 1
       /\ SubSeq(streams'[c].emitted, 1, Len(streams[c].emitted)) = streams[c].emitted
       /\ streams'[c].emitted[Len(streams'[c].emitted)].out = out.out
    \/ /\ streams'[c].status = "errored"
       /\ streams'[c].error = StdErrError(out.out)

\* The start request of streaming call c has been sent.
StartSent(c) ==
    /\ calls[c].outcome.kind = "stream"
    /\ connection.requests[c].state # "none"

\* Claim C15: in a streaming call the daemon serves, the subscription to the
\* output relay exists from the moment the start request is sent until the
\* call unsubscribes at the end of its grace period, so every output
\* notification that arrives in between is relayed to the call's stream
\* (as long as the stream has had no terminal signal): no early output is lost.
C15_SubscribedWhileStarted ==
    \A c \in CallIds :
        (StartSent(c) /\ streams[c].timer # "fired") => streams[c].subscribed

C15_EarlyOutputRelayed ==
    \A c \in CallIds : \A out \in Outputs :
        (/\ Arrives(out)
         /\ StartSent(c)
         /\ streams[c].timer # "fired"
         /\ streams[c].status = "open")
        => Relayed(c, out)

C15_SubscribedBeforeStart ==
    []C15_SubscribedWhileStarted /\ [][C15_EarlyOutputRelayed]_vars

\* The stream of a call whose start request is still unanswered has already
\* emitted an output.
C15_Witness ==
    \E c \in CallIds :
        /\ StartSent(c)
        /\ connection.requests[c].state = "pending"
        /\ calls[c].settled = "none"
        /\ Len(streams[c].emitted) >= 1

\* The start request of streaming call c was answered without an error field.
StartSucceeded(c) ==
    /\ calls[c].outcome.kind = "stream"
    /\ calls[c].settled = "response"
    /\ ~HasText(calls[c].response, "error")

\* A stderr output has arrived on a connection that call c reads under
\* throwOnStdErr.
StdErrSignalled(c) ==
    /\ calls[c].options.throwOnStdErr
    /\ \E i \in 1..Len(connection.notifications) :
           connection.notifications[i].source = "stderr"

\* Claim C17: once the start request of a streaming call has settled, with
\* success or failure, the grace period ends: from then on the call is
\* unsubscribed from the relay and its stream is in a terminal state. That
\* state is normal completion when the start succeeded and no error was
\* signalled (and only when the start succeeded), and an output that arrives
\* during the grace period is still relayed.
C17_Terminated(c) ==
    /\ streams[c].timer = "fired"
    /\ ~streams[c].subscribed
    /\ streams[c].status \in {"completed", "errored"}

C17_TerminalState ==
    \A c \in CallIds :
        /\ streams[c].timer = "fired" => C17_Terminated(c)
        /\ (streams[c].timer = "fired" /\ StartSucceeded(c) /\ ~StdErrSignalled(c))
              => streams[c].status = "completed"
        /\ streams[c].status = "completed" => StartSucceeded(c)

C17_RelayedInGracePeriod ==
    \A c \in CallIds : \A out \in Outputs :
        (/\ Arrives(out)
         /\ streams[c].timer = "armed"
         /\ streams[c].status = "open")
        => Relayed(c, out)

C17_StreamTerminates ==
    /\ \A c \in CallIds :
           (calls[c].outcome.kind = "stream" /\ calls[c].settled # "none")
              ~> C17_Terminated(c)
    /\ []C17_TerminalState
    /\ [][C17_RelayedInGracePeriod]_vars

\* A streaming call whose start succeeded has completed normally after its
\* grace period, with output relayed to it.
C17_Witness ==
    \E c \in CallIds :
        /\ StartSucceeded(c)
        /\ C17_Terminated(c)
        /\ streams[c].status = "completed"
        /\ Len(streams[c].emitted) >= 2

\* What a subscriber expects to see for `out` under `options`.
Delivered(options, out) ==
    IF options.mergeStdOutErr /\ out.source = "stderr"
    THEN [source |-> "stdout", out |-> out.out]
    ELSE out

\* Claim C18: in a streaming call with mergeStdOutErr set and throwOnStdErr
\* not set, a relayed stderr event reaches the subscriber as a stdout event
\* with the same text, in the step in which it is relayed; stdout events, and
\* every event when neither option is set, reach it unchanged.
C18_EventDelivered ==
    \A c \in CallIds : \A out \in Outputs :
        (/\ Arrives(out)
         /\ LiveStream(c)
         /\ (~calls[c].options.throwOnStdErr \/ out.source = "stdout"))
        => /\ streams'[c].emitted =
                  Append(streams[c].emitted, Delivered(calls[c].options, out))
           /\ streams'[c].status = "open"

C18_StreamMergesStdErr == [][C18_EventDelivered]_vars

\* The subscriber of a merging call has seen the stderr text as a stdout event.
C18_Witness ==
    \E c \in CallIds :
        /\ calls[c].outcome.kind = "stream"
        /\ calls[c].options.mergeStdOutErr
        /\ ~calls[c].options.throwOnStdErr
        /\ \E i \in 1..Len(streams[c].emitted) :
               streams[c].emitted[i] = [source |-> "stdout", out |-> "warn\n"]
        /\ \E i \in 1..Len(streams[c].emitted) :
               streams[c].emitted[i] = [source |-> "stdout", out |-> "hello\n"]

\* The diagnostic message of a failed start, spelled out for the calls made.
Diagnostic(c) ==
    IF calls[c].op = "execObservable"
    THEN "Failed to run script.py as observable with args --flag"
    ELSE "Failed to run pip as observable with args list"

\* The start request of streaming call c settles in this step with a
\* failure: the closed promise is rejected or the answer has an error field.
StartFails(c) ==
    /\ calls[c].outcome.kind = "stream"
    /\ calls[c].settled = "none"
    /\ \/ calls'[c].settled = "rejected"
       \/ calls'[c].settled = "response" /\ HasText(calls'[c].response, "error")

\* The error start() throws for that failure.
Failure(c) ==
    IF calls'[c].settled = "rejected"
    THEN connectionClosedDeferred'.reason
    ELSE [type |-> "DaemonError", message |-> calls'[c].response.error]

\* Claim C16: when the start request of a streaming call fails (it settles
\* with a rejection, or its response has an error field) while the stream
\* has had no terminal signal, the stream emits one last stderr event that
\* carries the diagnostic message and the stderr buffered from the raw stderr
\* of the process, then signals its terminal error with that failure; no
\* event and no other terminal signal follows.
C16_DiagnosticThenError ==
    \A c \in CallIds :
        /\ (StartFails(c) /\ streams[c].status = "open")
              => /\ streams'[c].emitted =
                        Append(streams[c].emitted,
                               [source |-> "stderr",
                                out |-> Diagnostic(c) \o "\n" \o streams[c].stdErr])
                 /\ streams'[c].status = "errored"
                 /\ streams'[c].error = Failure(c)
                 /\ Failure(c).type \in {"ConnectionClosedError", "DaemonError"}
        /\ streams[c].status = "errored"
              => /\ streams'[c].emitted = streams[c].emitted
                 /\ streams'[c].status = "errored"
                 /\ streams'[c].error = streams[c].error

C16_BufferedStdErr ==
    \A c \in CallIds :
        /\ streams[c].stdErr \in {"", "Traceback"}
        /\ proc.stderrData = {} => streams[c].stdErr = ""
        /\ streams[c].status = "none" => streams[c].stdErr = ""

C16_StartFailureEndsStream == []C16_BufferedStdErr /\ [][C16_DiagnosticThenError]_vars

\* The connection closed before the start request was answered: the stream
\* ended with the ConnectionClosedError after the diagnostic event with the
\* buffered stderr, and the output that arrived afterwards and the end of the
\* grace period have left it as it was.
C16_Witness ==
    \E c \in CallIds :
        /\ calls[c].op = "execObservable"
        /\ calls[c].settled = "rejected"
        /\ streams[c].status = "errored"
        /\ streams[c].error = ConnectionClosedError("Daemon Connection Closed")
        /\ streams[c].emitted =
              << [source |-> "stderr",
                  out |-> "Failed to run script.py as observable with args --flag\nTraceback"] >>
        /\ streams[c].timer = "fired"
        /\ connection.requests[c].state = "answered"
        /\ Len(connection.notifications) = 1

\* A connection-closed, connection-disposed, connection-error or process-exit
\* event is handled in this step, dispose() not having run.
ClosingEventHandled ==
    /\ ~disposed
    /\ \/ connection'.events = connection.events + 1
       \/ ~proc.exitEmitted /\ proc'.exitEmitted

\* Claim C19: each connection-closed, connection-disposed, connection-error
\* and process-exit event (handled before dispose()) leaves the daemon not
\* alive and the closed promise rejected with a ConnectionClosedError; the
\* promise settles at the first of them, with the message as it is at that
\* moment, and a later event leaves the promise as it is while it still
\* appends its text to the message.
C19_EventClosesDaemon ==
    ClosingEventHandled =>
        /\ connectionClosedMessage' # ""
        /\ connectionClosedDeferred'.state = "rejected"
        /\ connectionClosedDeferred'.reason.type = "ConnectionClosedError"
        /\ connectionClosedDeferred.state = "pending" =>
               connectionClosedDeferred'.reason.message = connectionClosedMessage'
        /\ connectionClosedDeferred.state = "rejected" =>
               connectionClosedDeferred' = connectionClosedDeferred
        /\ IsPrefix(connectionClosedMessage, connectionClosedMessage')
        /\ Len(connectionClosedMessage') > Len(connectionClosedMessage)

C19_FirstRejectionWins == [][C19_EventClosesDaemon]_vars

\* The connection closed and then the process exited with code 1: the promise
\* holds the reason of the first event, the message holds both texts.
C19_Witness ==
    /\ connectionClosedDeferred =
          [state |-> "rejected",
           reason |-> ConnectionClosedError("Daemon Connection Closed")]
    /\ connectionClosedMessage =
          "Daemon Connection ClosedDaemon Processed died with exit code, With Error: 1"

\* Claim C20: dispose() never raises. When proc.kill fails the failure is
\* swallowed: the daemon is disposed and not alive all the same, its
\* subscriptions are released (once), and a later dispose() does not call
\* kill again.
C20_DisposeNeverRaises ==
    /\ disposeRaised = 0
    /\ disposeCalls > 0 =>
           /\ disposed
           /\ ~isAlive
           /\ ~disposables.subscribed
           /\ disposables.teardowns = 1
           /\ proc.kills = 1

\* dispose() was called twice and the one kill it attempted failed.
C20_Witness ==
    /\ disposeCalls >= 2
    /\ proc.kills = 1
    /\ proc.signals = 0
    /\ disposed
    /\ ~disposables.subscribed

RECURSIVE IsSubsequence(_, _)
\* s is t with some of its elements left out: same order, none used twice.
IsSubsequence(s, t) ==
    IF s = << >> THEN TRUE
    ELSE IF t = << >> THEN FALSE
    ELSE IF Head(s) = Head(t) THEN IsSubsequence(Tail(s), Tail(t))
    ELSE IsSubsequence(s, Tail(t))

\* The events the subscriber of call c has got from the relay: what its
\* stream has emitted, less the diagnostic event of a failed start.
RelayedEvents(c) ==
    IF /\ streams[c].status = "errored"
       /\ streams[c].error.type \in {"DaemonError", "ConnectionClosedError"}
    THEN SubSeq(streams[c].emitted, 1, Len(streams[c].emitted) - 1)
    ELSE streams[c].emitted

\* The notifications of the connection as call c is to see them.
NotificationsFor(c) ==
    [i \in 1..Len(connection.notifications) |->
        Delivered(calls[c].options, connection.notifications[i])]

\* Claim C21: output notifications reach a streaming subscriber in the order
\* in which they arrived on the connection: the events a subscriber has got
\* from the relay are, in order, some of the notifications of the connection,
\* none of them twice.
C21_RelayKeepsOrder ==
    \A c \in CallIds :
        calls[c].outcome.kind = "stream" =>
            IsSubsequence(RelayedEvents(c), NotificationsFor(c))

\* A subscriber has got the second and the third of three notifications,
\* having subscribed after the first.
C21_Witness ==
    \E c \in CallIds :
        /\ calls[c].outcome.kind = "stream"
        /\ Len(connection.notifications) = 3
        /\ RelayedEvents(c) = SubSeq(NotificationsFor(c), 2, 3)

\* Claim C22: output is broadcast, not routed by call: an output notification
\* that arrives while two streaming calls are subscribed is delivered to the
\* streams of both, so the stream of a call can hold output produced for the
\* other call.
C22_DeliveredToBoth ==
    \A c, d \in SessionCallIds : \A out \in SessionOutputs :
        (/\ c # d
         /\ Arrives(out)
         /\ LiveStream(c)
         /\ LiveStream(d))
        => /\ streams'[c].emitted = Append(streams[c].emitted, out)
           /\ streams'[d].emitted = Append(streams[d].emitted, out)

C22_OutputIsBroadcast == [][C22_DeliveredToBoth]_vars

\* A file call and a module call stream at the same time and both have got
\* the same two outputs.
C22_Witness ==
    \E c, d \in SessionCallIds :
        /\ calls[c].op = "execObservable"
        /\ calls[d].op = "execModuleObservable"
        /\ Len(streams[c].emitted) = 2
        /\ streams[d].emitted = streams[c].emitted

\* Call c is made in this step on a daemon that is alive, whose process has
\* an exit code already, with options the gate accepts.
CalledAfterExitCode(c) ==
    /\ calls[c].op = "none"
    /\ calls'[c].op # "none"
    /\ connectionClosedMessage = ""
    /\ proc.exited
    /\ proc.exitCode.kind = "number"
    /\ OnlyAllowListedKeys(calls'[c].options.keys)

\* The monitor handles the exit event of the process in this step.
ExitEventHandled == ~disposed /\ ~proc.exitEmitted /\ proc'.exitEmitted

\* Claim C23: a request made while isAlive is true and the exit code of the
\* process is already known is no hard failure: nothing is sent on the
\* connection, nothing is raised at dispatch, the call waits for the closed
\* promise; when the monitor then handles the exit event the call is rejected
\* with a ConnectionClosedError, and exec/execModule go to the fallback.
C23_WaitsForExitEvent ==
    \A c \in CallIds :
        /\ CalledAfterExitCode(c)
              => /\ connection'.requests[c] = NoRequest
                 /\ calls'[c].pc = "awaitingClosed"
                 /\ calls'[c].outcome.kind = "none"
                 /\ pythonExecutionService'[c] = << >>
        /\ (calls[c].pc = "awaitingClosed" /\ ExitEventHandled)
              => /\ calls'[c].pc = "done"
                 /\ calls'[c].settled = "rejected"
                 /\ calls'[c].outcome.kind = "fallback"
                 /\ calls'[c].outcome.error = connectionClosedDeferred'.reason
                 /\ calls'[c].outcome.error.type = "ConnectionClosedError"
                 /\ pythonExecutionService'[c] =
                        << [op |-> calls[c].op, moduleName |-> calls[c].moduleName,
                            args |-> calls[c].args, options |-> calls[c].options] >>

C23_ExitCodeBeforeExitEvent == [][C23_WaitsForExitEvent]_vars

\* A call made on an alive daemon sent no request and fell back once the
\* exit event of the process (exit code 1) was handled.
C23_Witness ==
    \E c \in CallIds :
        /\ calls[c].aliveAtCall
        /\ connection.requests[c] = NoRequest
        /\ calls[c].settled = "rejected"
        /\ calls[c].outcome.kind = "fallback"
        /\ calls[c].outcome.error =
              ConnectionClosedError("Daemon Processed died with exit code, With Error: 1")
        /\ Len(pythonExecutionService[c]) = 1

\* Claim C24: dispose() of the object a streaming call returned tears the
\* whole daemon down: from then on isAlive is false and the process has got
\* the kill signal, and every call made later, of any of the four kinds, is
\* delegated to the fallback executor.
C24_DaemonTornDown ==
    disposeCalls > 0 =>
        /\ connectionClosedMessage # ""
        /\ disposed
        /\ proc.kills = 1
        /\ proc.signals = 1

C24_LaterCallsDelegated ==
    \A c \in SessionCallIds :
        (calls[c].op = "none" /\ calls'[c].op # "none" /\ disposeCalls > 0)
        => /\ calls'[c].pc = "done"
           /\ calls'[c].outcome.kind = "fallback"
           /\ connection'.requests[c] = NoRequest
           /\ streams'[c] = NoStream
           /\ pythonExecutionService'[c] =
                  << [op |-> calls'[c].op, moduleName |-> calls'[c].moduleName,
                      args |-> calls'[c].args, options |-> calls'[c].options] >>

C24_StreamDisposeEndsDaemon ==
    []C24_DaemonTornDown /\ [][C24_LaterCallsDelegated]_vars

\* The caller of a streaming call disposed what it got back, and a file call
\* made afterwards with options the gate accepts was delegated.
C24_Witness ==
    \E c, d \in SessionCallIds :
        /\ c < d
        /\ calls[c].outcome.kind = "stream"
        /\ disposeCalls = 1
        /\ calls[d].op = "exec"
        /\ ~calls[d].aliveAtCall
        /\ calls[d].outcome.kind = "fallback"
        /\ connection.requests[d] = NoRequest

\* The options of call c hold both throwOnStdErr and mergeStdOutErr.
BothOptions(c) ==
    /\ calls[c].options.throwOnStdErr
    /\ calls[c].options.mergeStdOutErr

\* Claim C25: with throwOnStdErr and mergeStdOutErr both set and stderr not
\* empty, throwOnStdErr wins on both paths: the batch call fails with
\* StdErrError(stderr) and returns no merged result, and the streaming call
\* ends with StdErrError(text) without the stderr text being relayed as a
\* stdout event.
C25_BatchThrowsUnmerged ==
    \A c \in CallIds :
        (/\ IsBatch(calls[c])
         /\ BothOptions(c)
         /\ calls[c].settled = "response"
         /\ ~HasText(calls[c].response, "error")
         /\ HasText(calls[c].response, "stderr"))
        => /\ calls[c].outcome =
                 [kind |-> "throw", result |-> NoResponse,
                  error |-> [type |-> "StdErrError",
                             message |-> calls[c].response.stderr]]
           /\ pythonExecutionService[c] = << >>

C25_StreamThrowsUnmerged ==
    \A c \in CallIds : \A out \in Outputs :
        (/\ Arrives(out)
         /\ out.source = "stderr"
         /\ LiveStream(c)
         /\ BothOptions(c))
        => /\ streams'[c].status = "errored"
           /\ streams'[c].error = [type |-> "StdErrError", message |-> out.out]
           /\ streams'[c].emitted = streams[c].emitted
           /\ \A i \in 1..Len(streams'[c].emitted) :
                  streams'[c].emitted[i] # [source |-> "stdout", out |-> out.out]

C25_ThrowBeforeMerge == []C25_BatchThrowsUnmerged /\ [][C25_StreamThrowsUnmerged]_vars

\* A batch call with both options got stderr 'warn' next to stdout 'out' and
\* threw the StdErrError.
C25_Witness ==
    \E c \in CallIds :
        /\ calls[c].op = "exec"
        /\ BothOptions(c)
        /\ calls[c].response = Response({"stdout", "stderr"}, "", "out", "warn")
        /\ calls[c].outcome.kind = "throw"
        /\ calls[c].outcome.error = StdErrError("warn")

\* A connection-closed, connection-disposed, connection-error or process-exit
\* event occurs in this step, dispose() having run.
EventAfterDispose ==
    /\ disposed
    /\ \/ connection'.events = connection.events + 1
       \/ ~proc.exitEmitted /\ proc'.exitEmitted

\* Claim C26: once dispose() has run, a later connection-closed,
\* connection-disposed, connection-error or process-exit event leaves the
\* state of the daemon as it is: the closed reason stays
\* 'Daemon disposed from dispose()' and the closed promise is not rejected.
C26_EventIgnored ==
    EventAfterDispose =>
        /\ connectionClosedMessage = "Daemon disposed from dispose()"
        /\ connectionClosedMessage' = connectionClosedMessage
        /\ connectionClosedDeferred' = connectionClosedDeferred
        /\ UNCHANGED <<disposed, disposables, calls, streams, pythonExecutionService>>

C26_EventsAfterDisposeIgnored == [][C26_EventIgnored]_vars

\* After dispose() the connection reported an event and the process exit
\* was reported: the reason is that of dispose() and the promise is pending.
C26_Witness ==
    /\ disposed
    /\ connection.events = 1
    /\ proc.exitEmitted
    /\ connectionClosedMessage = "Daemon disposed from dispose()"
    /\ connectionClosedDeferred.state = "pending"

\* Batch call c has fallen back because the daemon answered with an error.
FellBackOnDaemonError(c) ==
    /\ calls[c].outcome.kind = "fallback"
    /\ calls[c].outcome.error.type = "DaemonError"

\* Claim C27: a DaemonError does not close the daemon. The step in which
\* exec/execModule falls back because of a DaemonError leaves isAlive, the
\* closed reason and the closed promise as they are, and the next call the
\* gate accepts is sent to the daemon again, not to the fallback executor.
C27_ErrorLeavesDaemonOpen ==
    \A c \in SessionCallIds :
        /\ (~FellBackOnDaemonError(c) /\ FellBackOnDaemonError(c)')
              => UNCHANGED <<connectionClosedMessage, connectionClosedDeferred,
                             disposed, proc>>
        /\ (/\ calls[c].op = "none"
            /\ calls'[c].op # "none"
            /\ \E d \in SessionCallIds : FellBackOnDaemonError(d)
            /\ disposeCalls = 0)
              => /\ connection'.requests[c].state = "pending"
                 /\ calls'[c].pc = "awaitingRace"
                 /\ pythonExecutionService'[c] = << >>

C27_DaemonErrorKeepsDaemon == [][C27_ErrorLeavesDaemonOpen]_vars

\* A file call fell back on the error 'boom' of the daemon and the module
\* call made after it was sent to the daemon.
C27_Witness ==
    \E c, d \in SessionCallIds :
        /\ c < d
        /\ calls[c].op = "exec"
        /\ calls[c].outcome.error =
              DaemonError("Failed to execute using the daemon, boom")
        /\ calls[c].outcome.kind = "fallback"
        /\ calls[d].op = "execModule"
        /\ connection.requests[d].method = "exec_module"
        /\ connectionClosedMessage = ""
        /\ connectionClosedDeferred.state = "pending"

\* Claim C28: an output stream the daemon serves gets at most one terminal
\* signal and no event after it. Once the stream has errored (StdErrError
\* under throwOnStdErr, or start failure) or completed, what its subscriber
\* has seen does not change: later relay events and the completion at the
\* end of the grace period are not observed, and a start failure after a
\* StdErrError does not deliver its diagnostic stderr event.
C28_NothingAfterTerminal ==
    \A c \in CallIds :
        /\ streams[c].status \in {"errored", "completed"}
              => /\ streams'[c].status = streams[c].status
                 /\ streams'[c].error = streams[c].error
                 /\ streams'[c].emitted = streams[c].emitted
        /\ (/\ StartFails(c)
            /\ streams[c].status = "errored"
            /\ streams[c].error.type = "StdErrError")
              => /\ streams'[c].error = streams[c].error
                 /\ \A i \in 1..Len(streams'[c].emitted) :
                        streams'[c].emitted[i].out # Diagnostic(c) \o "\n" \o streams[c].stdErr

C28_OneTerminalSignal == [][C28_NothingAfterTerminal]_vars

\* A stream was ended by the StdErrError of a stderr output before it had
\* emitted anything; the start request then failed on the closed connection
\* and the grace period ended, and the subscriber has seen nothing else.
C28_Witness ==
    \E c \in CallIds :
        /\ calls[c].options.throwOnStdErr
        /\ calls[c].settled = "rejected"
        /\ streams[c].status = "errored"
        /\ streams[c].error = StdErrError("warn\n")
        /\ streams[c].emitted = << >>
        /\ streams[c].timer = "fired"

\* The notebook a finished getOrCreateNotebook call gave its caller: the
\* one it returned, or the one its returned promise is for.
ReturnedNotebook(k) ==
    LET returned == notebookProvider.getOrCreateCalls[k].returned IN
    IF returned.kind = "notebook" THEN returned.id
    ELSE IF notebookProvider.promises[returned.id].state = "resolved"
         THEN notebookProvider.promises[returned.id].notebook
         ELSE returned.id
GotNotebook(k) ==
    /\ notebookProvider.getOrCreateCalls[k].pc = "done"
    /\ notebookProvider.getOrCreateCalls[k].returned.kind \in {"notebook", "promise"}
NothingDisposedOrFailed ==
    /\ notebookProvider.disposedNotebooks = {}
    /\ \A p \in NotebookCallIds :
          /\ notebookProvider.promises[p].state # "rejected"
          /\ ~notebookProvider.promises[p].disposeWhenDone

\* C29: while no notebook of the identity has been disposed (and no creation
\* has failed), createNotebook has been invoked at most once and every
\* getOrCreateNotebook call that got a notebook got the same one.
C29_CreatedOnce ==
    NothingDisposedOrFailed =>
       /\ Len(notebookProvider.created) <= 1
       /\ \A j, k \in NotebookCallIds :
             GotNotebook(j) /\ GotNotebook(k) => ReturnedNotebook(j) = ReturnedNotebook(k)

Rejects(p) ==
    /\ notebookProvider.promises[p].state = "pending"
    /\ notebookProvider'.promises[p].state = "rejected"
BecomesDisposed(nb) ==
    /\ nb \notin notebookProvider.disposedNotebooks
    /\ nb \in notebookProvider'.disposedNotebooks
HoldsNotebook(p, nb) ==
    /\ p # NoPromise
    /\ notebookProvider.promises[p].state = "resolved"
    /\ notebookProvider.promises[p].notebook = nb
ReturnsPromise(k, p) ==
    /\ notebookProvider.getOrCreateCalls[k].pc # "done"
    /\ notebookProvider'.getOrCreateCalls[k].pc = "done"
    /\ notebookProvider'.getOrCreateCalls[k].returned = [kind |-> "promise", id |-> p]
C30_RejectedNotCached ==
    notebookProvider.notebooks # NoPromise =>
       notebookProvider.promises[notebookProvider.notebooks].state # "rejected"
C30_OwnPromiseOnly ==
    /\ \A p \in NotebookCallIds :
          Rejects(p) =>
             notebookProvider'.notebooks =
                IF notebookProvider.notebooks = p THEN NoPromise
                ELSE notebookProvider.notebooks
    /\ \A nb \in NotebookCallIds :
          BecomesDisposed(nb) =>
             IF HoldsNotebook(notebookProvider.notebooks, nb)
             THEN notebookProvider'.notebooks = NoPromise
             ELSE notebookProvider'.notebooks = notebookProvider.notebooks
    /\ \A k, p \in NotebookCallIds :
          ReturnsPromise(k, p) => notebookProvider'.promises[p].state # "rejected"
\* C30: a step in which a promise rejects empties the cache when the cache
\* holds that promise and leaves it alone otherwise; a step in which a
\* notebook is disposed empties the cache when the cache holds a promise
\* resolved with that notebook and leaves it alone otherwise; a rejected
\* promise is never cached, and no call returns a promise that has rejected.
C30_EvictedByOwnPromiseOnly == []C30_RejectedNotCached /\ [][C30_OwnPromiseOnly]_vars
\* The first creation has failed, a second one was made and is still cached.
C30_Witness ==
    /\ Len(notebookProvider.created) = 2
    /\ notebookProvider.promises[notebookProvider.created[1]].state = "rejected"
    /\ notebookProvider.notebooks = notebookProvider.created[2]

====
